---------------------------- MODULE Spec2Model ----------------------------
(***************************************************************************)
(* Synchronisation and training-load engine of strava-analytics.           *)
(*                                                                         *)
(* SyncManager.full_sync / incremental_sync (utils/sync_manager.py) are    *)
(* modelled step by step against an SQLAlchemy session that is created     *)
(* with autoflush=False (config/settings.py): objects added or changed in  *)
(* the session reach the tables only at a commit, a query sees only rows   *)
(* already in the tables, and a commit whose flush fails rolls the         *)
(* transaction back and leaves the session unusable until rollback(),      *)
(* which the sync manager never calls.                                     *)
(*                                                                         *)
(* Numbers.  The code rounds TSS to 1 decimal, CTL/ATL/TSB to 2 decimals   *)
(* and the intensity factor to 3 decimals; the model keeps them as         *)
(* integers in tenths, hundredths and thousandths.  round() is taken on    *)
(* the exact quotient, ties to even; where the exact quotient is a tie the *)
(* floating-point result of the code may be either neighbour, and no       *)
(* property below depends on which.  An optional numeric field that is     *)
(* None is 0 here: the mapping code itself sends every falsy remote value  *)
(* to None ("float(x) if x else None").                                    *)
(***************************************************************************)
EXTENDS Integers, Sequences, FiniteSets, TLC

(* ------------------------------ bounds -------------------------------- *)
MaxId == 2
MaxDay == 3
MaxSyncs == 2
MaxChanges == 2
MaxFaults == 2

Ids == 1..MaxId
Days == 1..MaxDay

(* ------------------------- program constants -------------------------- *)
CTL_TIME_CONSTANT == 42
ATL_TIME_CONSTANT == 7
SYNC_STREAM_DATA_DAYS == 90
STREAM_BATCH_LIMIT == 50

NoCoord == "none"

(* -------------------------- small arithmetic -------------------------- *)
RECURSIVE Gcd(_, _)
Gcd(a, b) == IF b = 0 THEN a ELSE Gcd(b, a % b)

(* Python round(): nearest, ties to even, of the exact quotient n/d (n>=0, d>0). *)
RoundHalfEven(n, d) ==
    LET q == n \div d
        r == n % d
    IN  IF 2 * r < d THEN q
        ELSE IF 2 * r > d THEN q + 1
        ELSE IF q % 2 = 0 THEN q ELSE q + 1

(* A fraction <<n, d>> multiplied by a/b, kept in lowest terms. *)
FracMul(f, a, b) ==
    LET n == f[1] * a
        d == f[2] * b
        g == Gcd(n, d)
    IN  IF g = 0 THEN <<0, 1>> ELSE <<n \div g, d \div g>>

FracReduce(n, d) == FracMul(<<n, d>>, 1, 1)

(* ------------------------- utils/training_metrics --------------------- *)
(* TSS in tenths.  normalized_power * intensity_factor / ftp * hours * 100 *)
calculate_tss_from_power(duration_seconds, normalized_power, ftp) ==
    IF ftp = 0 THEN 0
    ELSE LET hours == FracReduce(duration_seconds, 3600)
             a == FracMul(hours, normalized_power, ftp)
             b == FracMul(a, normalized_power, ftp)
         IN  RoundHalfEven(b[1] * 1000, b[2])

(* threshold_hr is the fraction thr[1]/thr[2] (max_heart_rate * 0.95). *)
calculate_tss_from_hr(duration_seconds, average_hr, thr) ==
    IF thr[1] = 0 THEN 0
    ELSE LET hours == FracReduce(duration_seconds, 3600)
             a == FracMul(hours, average_hr * thr[2], thr[1])
             b == FracMul(a, average_hr * thr[2], thr[1])
         IN  RoundHalfEven(b[1] * 1000, b[2])

(* Intensity factor in thousandths. *)
calculate_intensity_factor(normalized_power, ftp) ==
    IF ftp = 0 THEN 0 ELSE RoundHalfEven(normalized_power * 1000, ftp)

(* The smoothing recursion over a list of daily TSS values (tenths), from a *)
(* previous value in hundredths; the running value is exact, the result is  *)
(* rounded once at the end.                                                 *)
RECURSIVE EmaFold(_, _, _)
EmaFold(values, f, tc) ==
    IF values = <<>> THEN f
    ELSE EmaFold(Tail(values),
                 FracReduce((tc - 1) * f[1] + 10 * Head(values) * f[2], tc * f[2]),
                 tc)

calculate_ctl(daily_tss_values, previous_ctl) ==
    LET f == EmaFold(daily_tss_values, <<previous_ctl, 1>>, CTL_TIME_CONSTANT)
    IN  RoundHalfEven(f[1], f[2])

calculate_atl(daily_tss_values, previous_atl) ==
    LET f == EmaFold(daily_tss_values, <<previous_atl, 1>>, ATL_TIME_CONSTANT)
    IN  RoundHalfEven(f[1], f[2])

(* A balance with the operands exchanged: fatigue minus fitness. *)
calculate_tsb_swapped(ctl, atl) == atl - ctl

(* round(ctl - atl, 2) of two values that are whole hundredths. *)
calculate_tsb(ctl, atl) ==
    LET diff == ctl - atl
    IN  IF diff >= 0 THEN RoundHalfEven(diff * 10, 10)
        ELSE 0 - RoundHalfEven((0 - diff) * 10, 10)

(* calculate_activity_tss: power first, then heart rate, else 50 TSS/hour. *)
(* A moving_time of None makes every branch divide None by 3600: TypeError. *)
TssRaises(activity_dict) == activity_dict.moving_time = 0

calculate_activity_tss(activity_dict, athlete_ftp, athlete_threshold_hr) ==
    IF activity_dict.weighted_average_watts # 0 /\ athlete_ftp # 0
    THEN calculate_tss_from_power(activity_dict.moving_time,
                                  activity_dict.weighted_average_watts, athlete_ftp)
    ELSE IF activity_dict.average_heartrate # 0 /\ athlete_threshold_hr[1] # 0
    THEN calculate_tss_from_hr(activity_dict.moving_time,
                               activity_dict.average_heartrate, athlete_threshold_hr)
    ELSE LET est == FracReduce(activity_dict.moving_time * 50, 3600)
         IN  RoundHalfEven(est[1] * 10, est[2])


(* ------------------------------- state -------------------------------- *)
VARIABLES
    remote,          \* upstream activities of the athlete (one record per remote id)
    athlete,         \* the Athlete row: ftp and max_heart_rate (0 = not set)
    activities,      \* table activities (committed rows)
    training_loads,  \* table training_loads (committed rows)
    sync_metadata,   \* table sync_metadata (committed rows)
    streams,         \* table activity_streams (committed rows)
    pc,              \* position of the running sync call, "idle" or "done" between calls
    kind,            \* "full" or "incremental"
    pendActs,        \* session: Activity objects added or changed, not yet flushed
    pendLoads,       \* session: TrainingLoad objects added or changed, not yet flushed
    pendStreams,     \* session: ActivityStream objects added, not yet flushed
    sync_record,     \* the SyncMetadata object of the call, as the call holds it in memory
    recIdx,          \* its row in sync_metadata
    inactive,        \* the session's transaction was rolled back by a failed flush
    exc,             \* the exception the except-handler is handling
    activities_synced,   \* local of full_sync / incremental_sync
    streams_synced,      \* local of full_sync / incremental_sync
    after_date,      \* local of incremental_sync (0 = None)
    result,          \* what the last call gave its caller
    clock,           \* datetime.utcnow(), a logical clock
    nSyncs,          \* calls started
    nChanges,        \* upstream changes made
    nFaults,         \* faults injected so far (raising callbacks, upstream and database errors)
    recordsBefore,   \* rows of sync_metadata when the running call began
    hist,            \* one entry per finished call: what it saw and what it left
    oauth_tokens,    \* table oauth_tokens of the athlete (committed rows)
    client,          \* the StravaClient object: its token, access token and rate counters
    utcnow,          \* datetime.utcnow() as the client reads it, in seconds
    cpc,             \* position of the client: "new", "ready", or "attempt" inside the retry loop
    attempt,         \* loop variable of _make_request_with_retry
    log,             \* what the running (or last) request did: sleeps, upstream calls, refreshes
    outcome,         \* how the last request ended for its caller
    loaded,          \* the token row the constructor found, and whether it needed a refresh
    issued,          \* credentials the token endpoint has issued so far
    nRequests,       \* requests started
    nTicks,          \* times the clock was advanced between requests
    nUpsets,         \* upstream calls that did not return a value
    call,            \* a call of a TrainingMetrics function: its arguments and its result
    second           \* a second SyncManager of the same athlete, with a session of its own

dbVars == <<activities, training_loads, sync_metadata, streams>>
sessVars == <<pendActs, pendLoads, pendStreams, sync_record, recIdx, inactive, exc,
              activities_synced, streams_synced, after_date>>
envVars == <<remote, athlete, nChanges>>
vars == <<remote, athlete, activities, training_loads, sync_metadata, streams, pc, kind,
          pendActs, pendLoads, pendStreams, sync_record, recIdx, inactive, exc,
          activities_synced, streams_synced, after_date, result, clock, nSyncs,
          nChanges, nFaults, recordsBefore, hist, oauth_tokens, client, utcnow, cpc,
          attempt, log, outcome, loaded, issued, nRequests, nTicks, nUpsets, call,
          second>>

syncVars == <<remote, athlete, activities, training_loads, sync_metadata, streams, pc, kind,
              pendActs, pendLoads, pendStreams, sync_record, recIdx, inactive, exc,
              activities_synced, streams_synced, after_date, result, clock, nSyncs,
              nChanges, nFaults, recordsBefore, hist, second>>
clientVars == <<oauth_tokens, client, utcnow, cpc, attempt, log, outcome, loaded, issued,
                nRequests, nTicks, nUpsets>>
(* What a step of the sync manager leaves alone. *)
otherVars == <<clientVars, call, second>>

(* No client has been built and no metric is being computed. *)
NoToken == [access_token |-> 0, refresh_token |-> 0, expires_at |-> 0, created_at |-> 0]
NoCall == [fn |-> "none"]

ClientIdle ==
    /\ oauth_tokens = <<>>
    /\ client = [token |-> NoToken, access_token |-> 0, request_count_15min |-> 0,
                 request_count_daily |-> 0, window_15min_start |-> 0,
                 window_daily_start |-> 0]
    /\ utcnow = 0
    /\ cpc = "new"
    /\ attempt = 0
    /\ log = <<>>
    /\ outcome = "none"
    /\ loaded = [token |-> NoToken, needs_refresh |-> FALSE]
    /\ issued = 0
    /\ nRequests = 0
    /\ nTicks = 0
    /\ nUpsets = 0

MetricsIdle == call = NoCall

(* --------------------------- input domains ---------------------------- *)
(* The remote activity shapes the model draws from: a ride with power,      *)
(* heart rate and GPS; a manual entry without sensors, coordinates or map;  *)
(* a record without a moving time.                                          *)
RemoteShapes ==
    { [moving_time |-> 3600, weighted_average_watts |-> 200, average_heartrate |-> 150,
       start_latlng |-> "s", end_latlng |-> "e", map |-> "poly"],
      [moving_time |-> 3600, weighted_average_watts |-> 0, average_heartrate |-> 0,
       start_latlng |-> NoCoord, end_latlng |-> NoCoord, map |-> "nomap"],
      [moving_time |-> 0, weighted_average_watts |-> 0, average_heartrate |-> 150,
       start_latlng |-> NoCoord, end_latlng |-> NoCoord, map |-> "nomap"] }

RemoteActivity(id, day, shape) ==
    [id |-> id, start_date |-> day,
     moving_time |-> shape.moving_time,
     weighted_average_watts |-> shape.weighted_average_watts,
     average_heartrate |-> shape.average_heartrate,
     start_latlng |-> shape.start_latlng, end_latlng |-> shape.end_latlng,
     map |-> shape.map]

(* Thresholds the athlete may have saved on the settings page. *)
AthleteChoices ==
    { [ftp |-> 250, max_heart_rate |-> 0], [ftp |-> 0, max_heart_rate |-> 200] }

(* ------------------------- remote activity feed ----------------------- *)
Newer(a, b) == a.start_date > b.start_date \/ (a.start_date = b.start_date /\ a.id > b.id)

RECURSIVE NewestFirst(_)
NewestFirst(S) ==
    IF S = {} THEN <<>>
    ELSE LET top == CHOOSE a \in S : \A b \in S \ {a} : Newer(a, b)
         IN  <<top>> \o NewestFirst(S \ {top})

(* client.get_activities(after=...): newest first; `dup` is a page overlap  *)
(* that lists the newest activity twice.                                    *)
get_activities(feed, after, dup) ==
    LET sel == { a \in feed : after = 0 \/ a.start_date > after }
        lst == NewestFirst(sel)
    IN  IF dup /\ lst # <<>> THEN <<Head(lst)>> \o lst ELSE lst

(* ---------------------- the tables and the session -------------------- *)
Range(seq) == { seq[i] : i \in 1..Len(seq) }

(* Activity(id=...): a new object, every other column empty. *)
NewActivity(id) ==
    [id |-> id, start_date |-> 0, moving_time |-> 0, weighted_average_watts |-> 0,
     average_heartrate |-> 0, start_latlng |-> NoCoord, end_latlng |-> NoCoord,
     map_summary_polyline |-> NoCoord, training_stress_score |-> 0,
     intensity_factor |-> 0]

(* session.query(Activity).filter_by(id=...).first(): only rows of the table *)
(* are found (autoflush is off); a found row is the session's object, with   *)
(* the changes the session already made to it.                               *)
ActivityInTable(table, id) == \E i \in 1..Len(table) : table[i].id = id

PersistentActivity(table, pend, id) ==
    LET row == CHOOSE r \in Range(table) : r.id = id
        upd == { i \in 1..Len(pend) : pend[i].op = "update" /\ pend[i].row.id = id }
    IN  IF upd = {} THEN row
        ELSE pend[CHOOSE i \in upd : \A j \in upd : j <= i].row

(* json.dumps([float(lat), float(lon)]), None when the conversion raises. *)
LatLngJson(latlng) == IF latlng = "malformed" THEN NoCoord ELSE latlng

(* _sync_activity, lines 290-404: the mapped columns. Coordinates and the   *)
(* polyline are assigned only when the remote record carries them.          *)
MapColumns(activity, strava_activity) ==
    [activity EXCEPT
        !.start_date = strava_activity.start_date,
        !.moving_time = strava_activity.moving_time,
        !.weighted_average_watts = strava_activity.weighted_average_watts,
        !.average_heartrate = strava_activity.average_heartrate,
        !.start_latlng = IF strava_activity.start_latlng # NoCoord
                         THEN LatLngJson(strava_activity.start_latlng) ELSE @,
        !.end_latlng = IF strava_activity.end_latlng # NoCoord
                       THEN LatLngJson(strava_activity.end_latlng) ELSE @,
        !.map_summary_polyline = IF strava_activity.map = "nomap" THEN @
                                 ELSE strava_activity.map]

(* athlete.max_heart_rate * 0.95 if athlete.max_heart_rate else None *)
ThresholdHr(ath) == <<19 * ath.max_heart_rate, 20>>

(* _sync_activity, lines 406-425: TSS and intensity factor. *)
MapTrainingMetrics(activity, ath) ==
    [activity EXCEPT
        !.training_stress_score =
            calculate_activity_tss(activity, ath.ftp, ThresholdHr(ath)),
        !.intensity_factor =
            IF activity.weighted_average_watts # 0 /\ ath.ftp # 0
            THEN calculate_intensity_factor(activity.weighted_average_watts, ath.ftp)
            ELSE @]

(* One _sync_activity call: the session's pending objects afterwards, and   *)
(* whether the call raised (after the columns were mapped).                 *)
SyncActivity(table, pend, strava_activity, ath) ==
    LET isOld == ActivityInTable(table, strava_activity.id)
        obj == IF isOld THEN PersistentActivity(table, pend, strava_activity.id)
               ELSE NewActivity(strava_activity.id)
        mapped == MapColumns(obj, strava_activity)
        raises == TssRaises(mapped)
        final == IF raises THEN mapped ELSE MapTrainingMetrics(mapped, ath)
        rest == IF isOld
                THEN SelectSeq(pend, LAMBDA p : ~(p.op = "update" /\ p.row.id = final.id))
                ELSE pend
    IN  [pend |-> Append(rest, [op |-> IF isOld THEN "update" ELSE "insert", row |-> final]),
         raised |-> raises]

(* The loop of _sync_all_activities / _sync_activities_after over the list, *)
(* from position i; cbAt is the position whose progress callback raises     *)
(* (0 = none).                                                              *)
RECURSIVE SyncLoop(_, _, _, _, _, _, _)
SyncLoop(table, lst, i, pend, synced, cbAt, ath) ==
    IF i > Len(lst) THEN [pend |-> pend, synced |-> synced, error |-> "none"]
    ELSE IF cbAt = i THEN [pend |-> pend, synced |-> synced, error |-> "callback"]
    ELSE LET r == SyncActivity(table, pend, lst[i], ath)
         IN  IF r.raised
             THEN [pend |-> r.pend, synced |-> synced, error |-> "TypeError"]
             ELSE SyncLoop(table, lst, i + 1, r.pend, synced + 1, cbAt, ath)

(* A flush into a table without the primary key on id. *)
RECURSIVE FlushActivities_NoPrimaryKey(_, _)
FlushActivities_NoPrimaryKey(table, pend) ==
    IF pend = <<>> THEN [ok |-> TRUE, table |-> table]
    ELSE LET p == Head(pend)
         IN  IF p.row.start_date = 0 THEN [ok |-> FALSE, table |-> table]
             ELSE IF p.op = "insert"
             THEN FlushActivities_NoPrimaryKey(Append(table, p.row), Tail(pend))
             ELSE FlushActivities_NoPrimaryKey(
                      [i \in 1..Len(table) |->
                          IF table[i].id = p.row.id THEN p.row ELSE table[i]],
                      Tail(pend))

(* Flush of the pending Activity objects: the primary key admits one row    *)
(* per id and start_date is NOT NULL.                                       *)
RECURSIVE FlushActivities(_, _)
FlushActivities(table, pend) ==
    IF pend = <<>> THEN [ok |-> TRUE, table |-> table]
    ELSE LET p == Head(pend)
         IN  IF p.row.start_date = 0 THEN [ok |-> FALSE, table |-> table]
             ELSE IF p.op = "insert"
             THEN IF \E i \in 1..Len(table) : table[i].id = p.row.id
                  THEN [ok |-> FALSE, table |-> table]
                  ELSE FlushActivities(Append(table, p.row), Tail(pend))
             ELSE FlushActivities(
                      [i \in 1..Len(table) |->
                          IF table[i].id = p.row.id THEN p.row ELSE table[i]],
                      Tail(pend))

(* Flush of the pending TrainingLoad objects: unique (athlete_id, date).    *)
RECURSIVE FlushLoads(_, _)
FlushLoads(table, pend) ==
    IF pend = <<>> THEN [ok |-> TRUE, table |-> table]
    ELSE LET p == Head(pend)
         IN  IF p.op = "insert"
             THEN IF \E i \in 1..Len(table) : table[i].date = p.row.date
                  THEN [ok |-> FALSE, table |-> table]
                  ELSE FlushLoads(Append(table, p.row), Tail(pend))
             ELSE FlushLoads(
                      [i \in 1..Len(table) |->
                          IF table[i].date = p.row.date THEN p.row ELSE table[i]],
                      Tail(pend))

(* ---------------------- _calculate_training_loads --------------------- *)
(* activity.training_stress_score or 0.0, summed over the rows of one day *)
RECURSIVE DayTss(_, _)
DayTss(rows, day) ==
    IF rows = <<>> THEN 0
    ELSE (IF Head(rows).start_date = day THEN Head(rows).training_stress_score ELSE 0)
         + DayTss(Tail(rows), day)

RECURSIVE Ascending(_)
Ascending(S) ==
    IF S = {} THEN <<>>
    ELSE LET m == CHOOSE d \in S : \A e \in S : d <= e
         IN  <<m>> \o Ascending(S \ {m})

(* TrainingLoad(athlete_id=..., date=day): daily_tss and activity_count take *)
(* their column defaults, the other columns are empty.                      *)
NewTrainingLoad(day) ==
    [date |-> day, daily_tss |-> 0, activity_count |-> 0, ctl |-> 0, atl |-> 0, tsb |-> 0]

(* The loop over sorted(daily_tss.items()), lines 521-543. *)
RECURSIVE LoadLoop(_, _, _, _, _)
LoadLoop(days, rows, table, current_ctl, current_atl) ==
    IF days = <<>> THEN <<>>
    ELSE LET day == Head(days)
             daily_tss_value == DayTss(rows, day)
             ctl == calculate_ctl(<<daily_tss_value>>, current_ctl)
             atl == calculate_atl(<<daily_tss_value>>, current_atl)
             tsb == calculate_tsb(ctl, atl)
             found == \E i \in 1..Len(table) : table[i].date = day
             load == IF found THEN CHOOSE r \in Range(table) : r.date = day
                     ELSE NewTrainingLoad(day)
             written == [load EXCEPT !.daily_tss = daily_tss_value,
                                     !.ctl = ctl, !.atl = atl, !.tsb = tsb]
         IN  <<[op |-> IF found THEN "update" ELSE "insert", row |-> written]>>
             \o LoadLoop(Tail(days), rows, table, ctl, atl)

(* The activities the recomputation reads (lines 488-496). *)
LoadActivities(table, after) ==
    SelectSeq(table, LAMBDA a : after = 0 \/ a.start_date >= after)

(* The latest stored TrainingLoad row supplies the starting ctl and atl     *)
(* (lines 503-508).                                                         *)
PreviousLoad(table) ==
    IF table = <<>> THEN NewTrainingLoad(0)
    ELSE CHOOSE r \in Range(table) : \A q \in Range(table) : q.date <= r.date

(* The TrainingLoad objects _calculate_training_loads leaves in the session. *)
CalculateTrainingLoads(actTable, loadTable, after) ==
    LET rows == LoadActivities(actTable, after)
        previous_load == PreviousLoad(loadTable)
    IN  LoadLoop(Ascending({ rows[i].start_date : i \in 1..Len(rows) }), rows,
                 loadTable, previous_load.ctl, previous_load.atl)

(* --------------------------- sync records ----------------------------- *)
NewSyncRecord(sync_type, status, now) ==
    [sync_type |-> sync_type, sync_status |-> status, started_at |-> now,
     completed_at |-> 0, activities_synced |-> 0, streams_synced |-> 0,
     last_activity_date |-> 0, error_message |-> "none"]

(* _get_last_successful_sync().last_activity_date, None without a success *)
LastSuccessDate ==
    LET ok == { r \in Range(sync_metadata) : r.sync_status = "success" }
    IN  IF ok = {} THEN 0
        ELSE (CHOOSE r \in ok : \A q \in ok : q.completed_at <= r.completed_at)
                 .last_activity_date

(* Lines 92-93 / 174-175. *)
MarkSuccess(rec, now) ==
    [rec EXCEPT !.sync_status = "success", !.completed_at = now]

(* Lines 110-112 / 192-194. *)
MarkFailed(rec, e, now) ==
    [rec EXCEPT !.sync_status = "failed", !.error_message = e, !.completed_at = now]

NoResult == [status |-> "none", activities_synced |-> 0, streams_synced |-> 0,
             error |-> "none"]

(* ------------------------------ commit -------------------------------- *)
(* activity_streams.data is NOT NULL. *)
StreamsFlushable(pend) == \A i \in 1..Len(pend) : pend[i].data # NoCoord

(* session.commit(): flush everything pending, then commit.  `fault` is a   *)
(* database error during the flush.  A failed flush rolls the transaction   *)
(* back; a session whose flush failed raises on every later commit.  `meta` *)
(* is sync_metadata with the call's record flushed.                         *)
Commit(inact, fault, pA, pL, pS, meta) ==
    LET fa == FlushActivities(activities, pA)
        fl == FlushLoads(training_loads, pL)
        same == [activities |-> activities, training_loads |-> training_loads,
                 streams |-> streams, sync_metadata |-> sync_metadata]
    IN  IF inact THEN [error |-> "PendingRollbackError"] @@ same
        ELSE IF fault THEN [error |-> "OperationalError"] @@ same
        ELSE IF ~fa.ok \/ ~fl.ok \/ ~StreamsFlushable(pS)
             THEN [error |-> "IntegrityError"] @@ same
        ELSE [error |-> "none", activities |-> fa.table, training_loads |-> fl.table,
              streams |-> streams \o pS, sync_metadata |-> meta]

Committed(c) ==
    /\ activities' = c.activities
    /\ training_loads' = c.training_loads
    /\ streams' = c.streams
    /\ sync_metadata' = c.sync_metadata
    /\ pendActs' = <<>>
    /\ pendLoads' = <<>>
    /\ pendStreams' = <<>>
    /\ inactive' = (c.error # "none")

(* The call's record as the session would flush it. *)
MetaWith(rec) == [sync_metadata EXCEPT ![recIdx] = rec]

(* The call ends: its caller gets `res` (status "raised": an exception). *)
Return(res) ==
    /\ pc' = "idle"
    /\ result' = res
    /\ hist' = Append(hist,
                 [kind |-> kind', result |-> res, exc |-> exc', remote |-> remote,
                  activities |-> activities', training_loads |-> training_loads',
                  created |-> Len(sync_metadata') - recordsBefore',
                  record |-> IF Len(sync_metadata') > recordsBefore'
                             THEN sync_metadata'[Len(sync_metadata')]
                             ELSE NewSyncRecord("none", "none", 0)])

Raised(e) == [NoResult EXCEPT !.status = "raised", !.error = e]

(* An exception inside the try block: on to the except handler. *)
Except(e) ==
    /\ pc' = "handler"
    /\ exc' = e
    /\ UNCHANGED <<result, hist>>

(* ------------------------------ actions ------------------------------- *)
(* The environment misbehaves at most MaxFaults times in one behaviour. *)
Inject(n) ==
    /\ nFaults + n <= MaxFaults
    /\ nFaults' = nFaults + n

Cost(b) == IF b THEN 1 ELSE 0

(* full_sync / incremental_sync up to the try: a new session and            *)
(* _create_sync_record (lines 55-58, 137-140, 548-558).                     *)
StartSync(k, fault) ==
    /\ pc = "idle"
    /\ nSyncs < MaxSyncs
    /\ UNCHANGED otherVars
    /\ Inject(Cost(fault))
    /\ nSyncs' = nSyncs + 1
    /\ kind' = k
    /\ clock' = clock + 1
    /\ recordsBefore' = Len(sync_metadata)
    /\ recIdx' = Len(sync_metadata) + 1
    /\ sync_record' = NewSyncRecord(k, "in_progress", clock)
    /\ exc' = "none"
    /\ activities_synced' = 0
    /\ streams_synced' = 0
    /\ after_date' = 0
    /\ UNCHANGED envVars
    /\ LET c == Commit(FALSE, fault, <<>>, <<>>, <<>>,
                       Append(sync_metadata, sync_record'))
       IN  /\ Committed(c)
           /\ IF c.error = "none"
              THEN /\ pc' = IF k = "full" THEN "profile" ELSE "activities"
                   /\ UNCHANGED <<result, hist>>
              ELSE Return(Raised(c.error))

(* full_sync step 1 (lines 61-66) and _sync_athlete_profile (206-236). *)
SyncAthleteProfile(ev) ==
    /\ pc = "profile"
    /\ UNCHANGED otherVars
    /\ Inject(Cost(ev # "ok"))
    /\ UNCHANGED <<envVars, kind, sync_record, recIdx, activities_synced, streams_synced,
                   after_date, clock, nSyncs, recordsBefore>>
    /\ IF ev \in {"callback", "upstream"}
       THEN /\ Except(ev)
            /\ UNCHANGED <<dbVars, pendActs, pendLoads, pendStreams, inactive>>
       ELSE LET c == Commit(inactive, ev = "commit", pendActs, pendLoads, pendStreams,
                            MetaWith(sync_record))
            IN  /\ Committed(c)
                /\ IF c.error = "none"
                   THEN /\ pc' = "activities"
                        /\ UNCHANGED <<exc, result, hist>>
                   ELSE Except(c.error)

(* Positions of the activity loop at which the progress callback is called: *)
(* every tenth in _sync_all_activities, every one in _sync_activities_after. *)
CallbackPositions(k, lst) ==
    { i \in 1..Len(lst) : k = "incremental" \/ (i - 1) % 10 = 0 }

(* An incremental_sync step 2 that goes on to the training loads whatever   *)
(* number of activities was fetched.                                        *)
SyncActivities_AlwaysLoads(ev, dup, cbAt) ==
    /\ pc = "activities"
    /\ UNCHANGED otherVars
    /\ Inject(Cost(ev # "ok") + Cost(dup) + Cost(cbAt # 0))
    /\ UNCHANGED <<envVars, kind, recIdx, streams_synced, clock, nSyncs, recordsBefore>>
    /\ LET after == IF kind = "incremental" THEN LastSuccessDate ELSE 0
           lst == get_activities(remote, after, dup)
           loop == SyncLoop(activities, lst, 1, pendActs, 0, cbAt, athlete)
       IN  /\ cbAt \in CallbackPositions(kind, lst) \cup {0}
           /\ after_date' = after
           /\ IF ev \in {"callback", "upstream"}
              THEN /\ Except(ev)
                   /\ UNCHANGED <<dbVars, pendActs, pendLoads, pendStreams, inactive,
                                  activities_synced, sync_record>>
              ELSE IF loop.error # "none"
              THEN /\ Except(loop.error)
                   /\ pendActs' = loop.pend
                   /\ UNCHANGED <<dbVars, pendLoads, pendStreams, inactive,
                                  activities_synced, sync_record>>
              ELSE LET c == Commit(inactive, ev = "commit", loop.pend, pendLoads, pendStreams,
                                   MetaWith(sync_record))
                   IN  /\ Committed(c)
                       /\ IF c.error = "none"
                          THEN /\ activities_synced' = loop.synced
                               /\ sync_record' = [sync_record EXCEPT
                                                    !.activities_synced = loop.synced]
                               /\ pc' = "loads"
                               /\ UNCHANGED <<exc, result, hist>>
                          ELSE /\ Except(c.error)
                               /\ UNCHANGED <<activities_synced, sync_record>>

(* full_sync step 2 (lines 68-74) with _sync_all_activities (238-257);      *)
(* incremental_sync lines 143-154 with _sync_activities_after (259-279).    *)
SyncActivities(ev, dup, cbAt) ==
    /\ pc = "activities"
    /\ UNCHANGED otherVars
    /\ Inject(Cost(ev # "ok") + Cost(dup) + Cost(cbAt # 0))
    /\ UNCHANGED <<envVars, kind, recIdx, streams_synced, clock, nSyncs, recordsBefore>>
    /\ LET after == IF kind = "incremental" THEN LastSuccessDate ELSE 0
           lst == get_activities(remote, after, dup)
           loop == SyncLoop(activities, lst, 1, pendActs, 0, cbAt, athlete)
       IN  /\ cbAt \in CallbackPositions(kind, lst) \cup {0}
           /\ after_date' = after
           /\ IF ev \in {"callback", "upstream"}
              THEN /\ Except(ev)
                   /\ UNCHANGED <<dbVars, pendActs, pendLoads, pendStreams, inactive,
                                  activities_synced, sync_record>>
              ELSE IF loop.error # "none"
              THEN /\ Except(loop.error)
                   /\ pendActs' = loop.pend
                   /\ UNCHANGED <<dbVars, pendLoads, pendStreams, inactive,
                                  activities_synced, sync_record>>
              ELSE LET c == Commit(inactive, ev = "commit", loop.pend, pendLoads, pendStreams,
                                   MetaWith(sync_record))
                   IN  /\ Committed(c)
                       /\ IF c.error = "none"
                          THEN /\ activities_synced' = loop.synced
                               /\ sync_record' = [sync_record EXCEPT
                                                    !.activities_synced = loop.synced]
                               /\ pc' = IF kind = "full" \/ loop.synced > 0
                                        THEN "loads" ELSE "complete"
                               /\ UNCHANGED <<exc, result, hist>>
                          ELSE /\ Except(c.error)
                               /\ UNCHANGED <<activities_synced, sync_record>>


(* full_sync step 3 (lines 76-81), incremental_sync lines 157-161, with     *)
(* _calculate_training_loads (485-546): no commit when no activity is read. *)
CalculateLoads(ev) ==
    /\ pc = "loads"
    /\ UNCHANGED otherVars
    /\ Inject(Cost(ev # "ok"))
    /\ UNCHANGED <<envVars, kind, sync_record, recIdx, activities_synced, streams_synced,
                   after_date, clock, nSyncs, recordsBefore>>
    /\ IF ev = "callback"
       THEN /\ Except(ev)
            /\ UNCHANGED <<dbVars, pendActs, pendLoads, pendStreams, inactive>>
       ELSE IF LoadActivities(activities, after_date) = <<>>
       THEN /\ pc' = "streams"
            /\ UNCHANGED <<dbVars, pendActs, pendLoads, pendStreams, inactive, exc,
                           result, hist>>
       ELSE LET loads == CalculateTrainingLoads(activities, training_loads, after_date)
                c == Commit(inactive, ev = "commit", pendActs, pendLoads \o loads,
                            pendStreams, MetaWith(sync_record))
            IN  /\ Committed(c)
                /\ IF c.error = "none"
                   THEN /\ pc' = "streams"
                        /\ UNCHANGED <<exc, result, hist>>
                   ELSE Except(c.error)

(* _sync_recent_streams lines 434-441: activities not older than the        *)
(* look-back window that have no stream yet, at most STREAM_BATCH_LIMIT.     *)
Today == MaxDay + 1

StreamCandidates ==
    LET cutoff_date == Today - SYNC_STREAM_DATA_DAYS
        sel == SelectSeq(activities,
                   LAMBDA a : /\ a.start_date >= cutoff_date
                              /\ ~\E i \in 1..Len(streams) : streams[i].activity_id = a.id)
    IN  SubSeq(sel, 1, IF Len(sel) < STREAM_BATCH_LIMIT THEN Len(sel)
                       ELSE STREAM_BATCH_LIMIT)

(* _sync_activity_streams for each candidate, as the ActivityStream objects *)
(* it adds to the session.  For an id in `failing` get_activity_streams     *)
(* raises: nothing is added.  For an id in `broken` the conversion of the   *)
(* stream data raises (line 475) after the new object was added at line     *)
(* 472: the object stays in the session without data.  Either way the       *)
(* exception is logged by _sync_recent_streams and the activity is skipped. *)
RECURSIVE StreamLoop(_, _, _)
StreamLoop(cands, failing, broken) ==
    IF cands = <<>> THEN <<>>
    ELSE (IF Head(cands).id \in failing THEN <<>>
          ELSE <<[activity_id |-> Head(cands).id, stream_type |-> "time",
                  data |-> IF Head(cands).id \in broken THEN NoCoord ELSE "json"]>>)
         \o StreamLoop(Tail(cands), failing, broken)

(* The activities counted in `synced` (lines 444-447). *)
StreamsSynced(cands, failing, broken) ==
    Cardinality({ cands[i].id : i \in 1..Len(cands) } \ (failing \cup broken))

(* full_sync step 4 (lines 83-89), incremental_sync lines 163-168, with     *)
(* _sync_recent_streams (429-453).                                          *)
SyncRecentStreams(ev, failing, broken) ==
    /\ pc = "streams"
    /\ UNCHANGED otherVars
    /\ Inject(Cost(ev # "ok") + Cost(failing # {}) + Cost(broken # {}))
    /\ failing \cap broken = {}
    /\ broken \subseteq { StreamCandidates[i].id : i \in 1..Len(StreamCandidates) }
    /\ UNCHANGED <<envVars, kind, recIdx, activities_synced, after_date, clock, nSyncs,
                   recordsBefore>>
    /\ failing \subseteq { StreamCandidates[i].id : i \in 1..Len(StreamCandidates) }
    /\ IF ev = "callback"
       THEN /\ Except(ev)
            /\ UNCHANGED <<dbVars, pendActs, pendLoads, pendStreams, inactive,
                           streams_synced, sync_record>>
       ELSE LET new == StreamLoop(StreamCandidates, failing, broken)
                synced == StreamsSynced(StreamCandidates, failing, broken)
                c == Commit(inactive, ev = "commit", pendActs, pendLoads,
                            pendStreams \o new, MetaWith(sync_record))
            IN  /\ Committed(c)
                /\ IF c.error = "none"
                   THEN /\ streams_synced' = synced
                        /\ sync_record' = [sync_record EXCEPT !.streams_synced = synced]
                        /\ pc' = "complete"
                        /\ UNCHANGED <<exc, result, hist>>
                   ELSE /\ Except(c.error)
                        /\ UNCHANGED <<streams_synced, sync_record>>

(* "Complete sync": lines 91-94 and 173-176. *)
CompleteSync(fault) ==
    /\ pc = "complete"
    /\ UNCHANGED otherVars
    /\ Inject(Cost(fault))
    /\ UNCHANGED <<envVars, kind, recIdx, activities_synced, streams_synced, after_date,
                   nSyncs, recordsBefore>>
    /\ clock' = clock + 1
    /\ sync_record' = MarkSuccess(sync_record, clock)
    /\ LET c == Commit(inactive, fault, pendActs, pendLoads, pendStreams,
                       MetaWith(sync_record'))
       IN  /\ Committed(c)
           /\ IF c.error = "none"
              THEN /\ pc' = "final"
                   /\ UNCHANGED <<exc, result, hist>>
              ELSE Except(c.error)

(* The "Sync completed" callback and the return (lines 98-106, 180-188). *)
FinalCallback(raises) ==
    /\ pc = "final"
    /\ UNCHANGED otherVars
    /\ Inject(Cost(raises))
    /\ UNCHANGED <<envVars, dbVars, pendActs, pendLoads, pendStreams, sync_record, recIdx,
                   inactive, activities_synced, streams_synced, after_date, kind, clock,
                   nSyncs, recordsBefore>>
    /\ IF raises THEN Except("callback")
       ELSE /\ exc' = exc
            /\ Return([status |-> "success", activities_synced |-> activities_synced,
                       streams_synced |-> streams_synced, error |-> "none"])

(* An except handler that first rolls the session back. *)
HandleFailure_Rollback(fault) ==
    /\ pc = "handler"
    /\ UNCHANGED otherVars
    /\ Inject(Cost(fault))
    /\ UNCHANGED <<envVars, kind, recIdx, exc, activities_synced, streams_synced,
                   after_date, nSyncs, recordsBefore>>
    /\ clock' = clock + 1
    /\ sync_record' = MarkFailed(sync_record, exc, clock)
    /\ LET c == Commit(FALSE, fault, <<>>, <<>>, <<>>, MetaWith(sync_record'))
       IN  /\ Committed(c)
           /\ IF c.error = "none"
              THEN Return([NoResult EXCEPT !.status = "failed", !.error = exc])
              ELSE Return(Raised(c.error))

(* The except handler and the return from it (lines 108-118, 190-200). *)
HandleFailure(fault) ==
    /\ pc = "handler"
    /\ UNCHANGED otherVars
    /\ Inject(Cost(fault))
    /\ UNCHANGED <<envVars, kind, recIdx, exc, activities_synced, streams_synced,
                   after_date, nSyncs, recordsBefore>>
    /\ clock' = clock + 1
    /\ sync_record' = MarkFailed(sync_record, exc, clock)
    /\ LET c == Commit(inactive, fault, pendActs, pendLoads, pendStreams,
                       MetaWith(sync_record'))
       IN  /\ Committed(c)
           /\ IF c.error = "none"
              THEN Return([NoResult EXCEPT !.status = "failed", !.error = exc])
              ELSE Return(Raised(c.error))

(* Upstream, between two calls: an activity appears or is edited. *)
UpstreamChange(id, day, shape) ==
    /\ pc = "idle"
    /\ nChanges < MaxChanges
    /\ UNCHANGED otherVars
    /\ nSyncs < MaxSyncs
    /\ RemoteActivity(id, day, shape) \notin remote
    /\ remote' = { a \in remote : a.id # id } \cup {RemoteActivity(id, day, shape)}
    /\ nChanges' = nChanges + 1
    /\ UNCHANGED <<athlete, dbVars, sessVars, pc, kind, result, clock, nSyncs, nFaults,
                   recordsBefore, hist>>

(* --------------------------- specification ---------------------------- *)
(* The second SyncManager before it is used. *)
SecondIdle ==
    [pc |-> "idle", recIdx |-> 0, sync_record |-> NewSyncRecord("none", "none", 0),
     pendActs |-> <<>>, pendLoads |-> <<>>, inactive |-> FALSE, exc |-> "none",
     after_date |-> 0, activities_synced |-> 0, streams_synced |-> 0, seen |-> <<>>,
     result |-> NoResult]

(* A store and a session in which no sync has run yet. *)
SessionInit ==
    /\ athlete \in AthleteChoices
    /\ activities = <<>>
    /\ training_loads = <<>>
    /\ sync_metadata = <<>>
    /\ streams = <<>>
    /\ pc = "idle"
    /\ kind = "full"
    /\ pendActs = <<>>
    /\ pendLoads = <<>>
    /\ pendStreams = <<>>
    /\ sync_record = NewSyncRecord("none", "none", 0)
    /\ recIdx = 0
    /\ inactive = FALSE
    /\ exc = "none"
    /\ activities_synced = 0
    /\ streams_synced = 0
    /\ after_date = 0
    /\ result = NoResult
    /\ clock = 1
    /\ nSyncs = 0
    /\ nChanges = 0
    /\ nFaults = 0
    /\ recordsBefore = 0
    /\ hist = <<>>
    /\ second = SecondIdle

SyncInit == remote = {} /\ SessionInit

Init == SyncInit /\ ClientIdle /\ MetricsIdle

Next ==
    \/ \E k \in {"full", "incremental"}, fault \in BOOLEAN : StartSync(k, fault)
    \/ \E ev \in {"ok", "callback", "upstream", "commit"} : SyncAthleteProfile(ev)
    \/ \E ev \in {"ok", "callback", "upstream", "commit"}, dup \in BOOLEAN,
          cbAt \in 0..(MaxId + 1) : SyncActivities(ev, dup, cbAt)
    \/ \E ev \in {"ok", "callback", "commit"} : CalculateLoads(ev)
    \/ \E ev \in {"ok", "callback", "commit"}, failing \in SUBSET Ids, broken \in SUBSET Ids :
          SyncRecentStreams(ev, failing, broken)
    \/ \E fault \in BOOLEAN : CompleteSync(fault)
    \/ \E raises \in BOOLEAN : FinalCallback(raises)
    \/ \E fault \in BOOLEAN : HandleFailure(fault)
    \/ \E id \in Ids, day \in Days, shape \in RemoteShapes : UpstreamChange(id, day, shape)

Spec == Init /\ [][Next]_vars


(* ------------------------------ properties ---------------------------- *)
Returned(h) == h.result.status \in {"success", "failed"}
Succeeded(h) == h.result.status = "success"

(* C1: whatever happens in any step, full_sync and incremental_sync return  *)
(* a result with status success or failed; no exception leaves the call.    *)
C1_AlwaysStructuredResult ==
    \A i \in 1..Len(hist) : Returned(hist[i])

(* C2: every call creates exactly one SyncMetadata record, in_progress at   *)
(* first; once the call is over the record is success or failed, has a      *)
(* completion time, and its stored status is the status the caller got.     *)
C2_OneRecordPerCall ==
    /\ pc \in {"profile", "activities", "loads", "streams", "complete"} =>
          /\ Len(sync_metadata) = recordsBefore + 1
          /\ sync_metadata[recIdx].sync_status = "in_progress"
    /\ \A i \in 1..Len(hist) :
          /\ hist[i].created = 1
          /\ hist[i].record.sync_status \in {"success", "failed"}
          /\ hist[i].record.completed_at # 0
          /\ hist[i].record.sync_status = hist[i].result.status

(* C3: a SyncMetadata record committed with status success never changes    *)
(* afterwards.                                                              *)
C3_SuccessRecordFrozen ==
    [][\A i \in 1..Len(sync_metadata) :
          sync_metadata[i].sync_status = "success" =>
             sync_metadata'[i] = sync_metadata[i]]_vars

(* C4: two successful full_sync calls in a row over the same upstream data  *)
(* leave the same Activity rows and the same TrainingLoad rows.             *)
C4_FullSyncIdempotent ==
    \A i \in 1..(Len(hist) - 1) :
        ( /\ hist[i].kind = "full" /\ Succeeded(hist[i])
          /\ hist[i + 1].kind = "full" /\ Succeeded(hist[i + 1])
          /\ hist[i + 1].remote = hist[i].remote )
        => /\ Range(hist[i + 1].activities) = Range(hist[i].activities)
           /\ Range(hist[i + 1].training_loads) = Range(hist[i].training_loads)

(* What one full_sync leaves in an empty store for the upstream data `feed`. *)
FreshActivities(feed) ==
    FlushActivities(<<>>,
        SyncLoop(<<>>, get_activities(feed, 0, FALSE), 1, <<>>, 0, 0, athlete).pend).table

FreshTrainingLoads(feed) ==
    FlushLoads(<<>>, CalculateTrainingLoads(FreshActivities(feed), <<>>, 0)).table

(* C5: full_sync over the earlier part of a history, then incremental_sync  *)
(* once the later activities are upstream, leaves the TrainingLoad rows of  *)
(* one full_sync over the whole history into an empty store.                *)
C5_IncrementalEqualsFull ==
    ( /\ Len(hist) >= 2
      /\ hist[1].kind = "full" /\ Succeeded(hist[1])
      /\ hist[2].kind = "incremental" /\ Succeeded(hist[2])
      /\ hist[1].remote # {}
      /\ hist[1].remote \subseteq hist[2].remote
      /\ hist[2].remote # hist[1].remote
      /\ \A a \in hist[1].remote, b \in hist[2].remote \ hist[1].remote :
            a.start_date < b.start_date )
    => Range(hist[2].training_loads) = Range(FreshTrainingLoads(hist[2].remote))

LoadOn(loads, d) == CHOOSE r \in Range(loads) : r.date = d
HasLoad(loads, d) == \E r \in Range(loads) : r.date = d

(* C6: after a sync the TrainingLoad rows form a daily series without gaps, *)
(* each row one smoothing step from the row of the previous calendar day.   *)
C6_ContinuousDailySeries ==
    \A i \in 1..Len(hist) :
        Succeeded(hist[i]) =>
            LET loads == hist[i].training_loads
                dates == { r.date : r \in Range(loads) }
            IN  \A d \in Days :
                   (\E lo \in dates, hi \in dates : lo < d /\ d <= hi) =>
                      /\ HasLoad(loads, d)
                      /\ HasLoad(loads, d - 1)
                      /\ LoadOn(loads, d).ctl =
                            calculate_ctl(<<LoadOn(loads, d).daily_tss>>,
                                          LoadOn(loads, d - 1).ctl)
                      /\ LoadOn(loads, d).atl =
                            calculate_atl(<<LoadOn(loads, d).daily_tss>>,
                                          LoadOn(loads, d - 1).atl)

(* C7: in every TrainingLoad row, tsb is ctl minus atl of that row (both    *)
(* are whole hundredths, so rounding the difference to 2 places leaves it). *)
C7_TsbIsCtlMinusAtl ==
    \A i \in 1..Len(training_loads) :
        training_loads[i].tsb = training_loads[i].ctl - training_loads[i].atl

C7_Witness ==
    /\ Len(hist) = 2
    /\ hist[1].kind = "full" /\ Succeeded(hist[1])
    /\ hist[2].kind = "incremental" /\ Succeeded(hist[2])
    /\ \E i \in 1..Len(training_loads) : training_loads[i].tsb < 0
    /\ Len(training_loads) >= 2

(* C8: the store never holds two Activity rows with one remote id nor two   *)
(* TrainingLoad rows with one date, also after re-syncs and after a listing *)
(* that names an activity twice.                                            *)
C8_UniqueRows ==
    /\ \A i, j \in 1..Len(activities) :
          activities[i].id = activities[j].id => i = j
    /\ \A i, j \in 1..Len(training_loads) :
          training_loads[i].date = training_loads[j].date => i = j

(* A stored activity is re-synced in a call whose listing names a new        *)
(* activity twice.                                                          *)
C8_Witness ==
    /\ Len(hist) = 2
    /\ Succeeded(hist[1])
    /\ hist[2].exc = "IntegrityError"
    /\ Cardinality(hist[2].remote) = 2
    /\ Len(activities) = 1
    /\ Len(training_loads) = 1

(* The row a blank Activity becomes when the remote record is mapped onto it. *)
FreshlyMapped(strava_activity) ==
    MapTrainingMetrics(MapColumns(NewActivity(strava_activity.id), strava_activity),
                       athlete)

(* C9: after a re-sync every mapped column of a stored activity holds the   *)
(* value derived from the current remote record; a column the remote record *)
(* no longer carries is empty.                                              *)
C9_ResyncOverwritesAll ==
    \A i \in 1..Len(hist) :
        Succeeded(hist[i]) =>
            \A r \in hist[i].remote :
                \A row \in Range(hist[i].activities) :
                    row.id = r.id => row = FreshlyMapped(r)

RECURSIVE DayCount(_, _)
DayCount(rows, day) ==
    IF rows = <<>> THEN 0
    ELSE (IF Head(rows).start_date = day THEN 1 ELSE 0) + DayCount(Tail(rows), day)

(* C10: after a successful sync every TrainingLoad row has daily_tss equal  *)
(* to the summed TSS of the stored activities of its date and               *)
(* activity_count equal to their number.                                    *)
C10_DailyTotals ==
    \A i \in 1..Len(hist) :
        Succeeded(hist[i]) =>
            \A row \in Range(hist[i].training_loads) :
                /\ row.daily_tss = DayTss(hist[i].activities, row.date)
                /\ row.activity_count = DayCount(hist[i].activities, row.date)


(* ============ a sync whose activity step fails part-way ================ *)
(* A feed of FeedSize activities, any of which may be a record that makes   *)
(* _sync_activity raise; the progress callback may raise at any position.   *)
(* Nothing else goes wrong: no duplicate in the listing, no database error. *)
FeedSize == 4

FeedDay(i) == IF i <= MaxDay THEN i ELSE MaxDay

PartialFeeds ==
    { { RemoteActivity(i, FeedDay(i), f[i]) : i \in 1..FeedSize } :
          f \in [1..FeedSize -> RemoteShapes] }

InitPartial == remote \in PartialFeeds /\ SessionInit /\ ClientIdle /\ MetricsIdle

NextPartial ==
    \/ \E k \in {"full", "incremental"} : StartSync(k, FALSE)
    \/ SyncAthleteProfile("ok")
    \/ \E cbAt \in 0..FeedSize : SyncActivities("ok", FALSE, cbAt)
    \/ CalculateLoads("ok")
    \/ SyncRecentStreams("ok", {}, {})
    \/ CompleteSync(FALSE)
    \/ FinalCallback(FALSE)
    \/ HandleFailure(FALSE)

SpecPartial == InitPartial /\ [][NextPartial]_vars

(* Position in the listing of the first record on which _sync_activity      *)
(* raises, 0 when there is none.                                            *)
FirstRaising(lst) ==
    LET bad == { i \in 1..Len(lst) : TssRaises(lst[i]) }
    IN  IF bad = {} THEN 0 ELSE CHOOSE i \in bad : \A j \in bad : i <= j

MaxRequests == 3
MaxTicks == 1
MaxUpsets == 3
TokenLifetime == 21600
T0 == 9000

STRAVA_RATE_LIMIT_15MIN == 100
STRAVA_RATE_LIMIT_DAILY == 1000
WINDOW_15MIN == 900
WINDOW_DAILY == 86400
REFRESH_BUFFER == 300
max_retries == 3

TickSteps == {1, 450, WINDOW_15MIN + 1, WINDOW_DAILY + 1}

(* OAuthToken.needs_refresh (buffer_seconds = 300). *)
needs_refresh(tok, t) == t >= tok.expires_at - REFRESH_BUFFER

(* query(OAuthToken).order_by(created_at.desc()).first(), NoToken for None. *)
LatestToken(tokens) ==
    IF tokens = <<>> THEN NoToken
    ELSE CHOOSE r \in Range(tokens) : \A q \in Range(tokens) : q.created_at <= r.created_at

(* What the token endpoint and the database do during one refresh: the      *)
(* exchange fails, or it returns new credentials, with or without an        *)
(* "athlete" entry; stravalib may install the new access token itself; the  *)
(* commit of the new row may fail.                                          *)
RefreshOutcomes ==
    { [upstream |-> "error", athlete |-> FALSE, installs |-> FALSE, commit |-> "ok"] }
    \cup { [upstream |-> "ok", athlete |-> FALSE, installs |-> i, commit |-> "ok"] :
              i \in BOOLEAN }
    \cup { [upstream |-> "ok", athlete |-> TRUE, installs |-> i, commit |-> c] :
              i \in BOOLEAN, c \in {"ok", "error"} }

NoRefresh == [upstream |-> "error", athlete |-> FALSE, installs |-> FALSE, commit |-> "ok"]

(* _save_token: a response without an athlete id raises ValueError, a       *)
(* failed commit is rolled back and re-raised; otherwise a new row is       *)
(* stored and becomes the cached token and the client's access token.       *)
save_token(c, tokens, token_response, commit, t) ==
    IF ~token_response.athlete \/ commit # "ok"
    THEN [ok |-> FALSE, client |-> c, tokens |-> tokens]
    ELSE LET token == [access_token |-> token_response.access_token,
                       refresh_token |-> token_response.refresh_token,
                       expires_at |-> token_response.expires_at,
                       created_at |-> t]
         IN  [ok |-> TRUE,
              client |-> [c EXCEPT !.token = token, !.access_token = token.access_token],
              tokens |-> Append(tokens, token)]

(* _refresh_access_token: False without a cached token or when the exchange *)
(* or the save raises.  `n` counts the credentials issued so far; the       *)
(* exchange takes one second.                                               *)
refresh_access_token(c, tokens, out, t, n) ==
    IF c.token = NoToken
    THEN [ok |-> FALSE, client |-> c, tokens |-> tokens, issued |-> n, took |-> 0]
    ELSE IF out.upstream = "error"
    THEN [ok |-> FALSE, client |-> c, tokens |-> tokens, issued |-> n, took |-> 1]
    ELSE LET refresh_response == [access_token |-> n + 1, refresh_token |-> n + 1,
                                  expires_at |-> t + 1 + TokenLifetime,
                                  athlete |-> out.athlete]
             c1 == IF out.installs THEN [c EXCEPT !.access_token = n + 1] ELSE c
             saved == save_token(c1, tokens, refresh_response, out.commit, t + 1)
         IN  [ok |-> saved.ok, client |-> saved.client, tokens |-> saved.tokens,
              issued |-> n + 1, took |-> 1]

(* A rate-limit check that never waits. *)
check_rate_limit_no_wait(c, t) ==
    [client |-> [c EXCEPT !.request_count_15min = @ + 1, !.request_count_daily = @ + 1],
     slept |-> 0, raised |-> FALSE]

(* _check_rate_limit at time t: the client afterwards, the seconds slept    *)
(* and whether RateLimitExceeded was raised.                                *)
check_rate_limit(c, t) ==
    LET c1 == IF t - c.window_15min_start > WINDOW_15MIN
              THEN [c EXCEPT !.request_count_15min = 0, !.window_15min_start = t]
              ELSE c
        c2 == IF t - c1.window_daily_start > WINDOW_DAILY
              THEN [c1 EXCEPT !.request_count_daily = 0, !.window_daily_start = t]
              ELSE c1
        saturated == c2.request_count_15min >= STRAVA_RATE_LIMIT_15MIN
        wait_time == 900 - (t - c2.window_15min_start)
        slept == IF saturated THEN wait_time + 1 ELSE 0
        c3 == IF saturated
              THEN [c2 EXCEPT !.request_count_15min = 0, !.window_15min_start = t + slept]
              ELSE c2
        raises == c3.request_count_daily >= STRAVA_RATE_LIMIT_DAILY
    IN  [client |-> IF raises THEN c3
                    ELSE [c3 EXCEPT !.request_count_15min = @ + 1,
                                    !.request_count_daily = @ + 1],
         slept |-> slept, raised |-> raises]

Event(ev, n, resp) == [ev |-> ev, n |-> n, resp |-> resp]

(* StravaClient(athlete_id): __init__ and _load_token. *)
Construct(out) ==
    /\ cpc = "new"
    /\ UNCHANGED <<syncVars, call, attempt, log, outcome, nRequests, nTicks, nUpsets>>
    /\ LET token == LatestToken(oauth_tokens)
           c0 == [token |-> token, access_token |-> 0, request_count_15min |-> 0,
                  request_count_daily |-> 0, window_15min_start |-> utcnow,
                  window_daily_start |-> utcnow]
           stale == token # NoToken /\ needs_refresh(token, utcnow)
           r == refresh_access_token(c0, oauth_tokens, out, utcnow, issued)
       IN  /\ stale \/ out = NoRefresh
           /\ loaded' = [token |-> token, needs_refresh |-> stale]
           /\ IF stale
              THEN /\ client' = r.client
                   /\ oauth_tokens' = r.tokens
                   /\ issued' = r.issued
                   /\ utcnow' = utcnow + r.took
              ELSE /\ client' = [c0 EXCEPT !.access_token = token.access_token]
                   /\ UNCHANGED <<oauth_tokens, issued, utcnow>>
    /\ cpc' = "ready"

(* Time passes between two requests. *)
Tick(d) ==
    /\ cpc \in {"new", "ready"}
    /\ nTicks < MaxTicks
    /\ nTicks' = nTicks + 1
    /\ utcnow' = utcnow + d
    /\ UNCHANGED <<syncVars, call, oauth_tokens, client, cpc, attempt, log, outcome, loaded,
                   issued, nRequests, nUpsets>>

(* _make_request_with_retry up to the loop: _check_rate_limit (line 278). *)
Request ==
    /\ cpc = "ready"
    /\ nRequests < MaxRequests
    /\ nRequests' = nRequests + 1
    /\ UNCHANGED <<syncVars, call, oauth_tokens, loaded, issued, nTicks, nUpsets>>
    /\ LET r == check_rate_limit(client, utcnow)
       IN  /\ client' = r.client
           /\ utcnow' = utcnow + r.slept
           /\ log' = IF r.slept > 0 THEN <<Event("sleep", r.slept, "none")>> ELSE <<>>
           /\ attempt' = 0
           /\ IF r.raised
              THEN /\ outcome' = "RateLimitExceeded"
                   /\ cpc' = "ready"
              ELSE /\ outcome' = "pending"
                   /\ cpc' = "attempt"

(* A retry loop in which a retry after a token refresh does not use up an   *)
(* attempt.                                                                 *)
Attempt_RefreshIsFree(resp, out) ==
    /\ cpc = "attempt"
    /\ UNCHANGED <<syncVars, call, loaded, nRequests, nTicks>>
    /\ resp = "AccessUnauthorized" \/ out = NoRefresh
    /\ nUpsets + Cost(resp # "ok") <= MaxUpsets
    /\ nUpsets' = nUpsets + Cost(resp # "ok")
    /\ LET called == Append(log, Event("call", client.access_token, resp))
           last == attempt >= max_retries - 1
           r == refresh_access_token(client, oauth_tokens, out, utcnow, issued)
       IN  CASE resp = "ok" ->
                  /\ log' = called
                  /\ outcome' = "value"
                  /\ cpc' = "ready"
                  /\ UNCHANGED <<oauth_tokens, client, utcnow, attempt, issued>>
             [] resp \in {"RateLimitExceeded", "Exception"} ->
                  /\ UNCHANGED <<oauth_tokens, client, issued>>
                  /\ IF last
                     THEN /\ log' = called
                          /\ outcome' = resp
                          /\ cpc' = "ready"
                          /\ UNCHANGED <<utcnow, attempt>>
                     ELSE LET wait_time == (2 ^ attempt) *
                                           (IF resp = "RateLimitExceeded" THEN 60 ELSE 5)
                          IN  /\ log' = Append(called, Event("sleep", wait_time, "none"))
                              /\ utcnow' = utcnow + wait_time
                              /\ attempt' = attempt + 1
                              /\ UNCHANGED <<outcome, cpc>>
             [] resp = "AccessUnauthorized" ->
                  /\ log' = Append(called, Event("refresh", IF r.ok THEN 1 ELSE 0, "none"))
                  /\ client' = r.client
                  /\ oauth_tokens' = r.tokens
                  /\ issued' = r.issued
                  /\ utcnow' = utcnow + r.took
                  /\ IF ~r.ok
                     THEN /\ outcome' = resp
                          /\ cpc' = "ready"
                          /\ UNCHANGED attempt
                     ELSE UNCHANGED <<attempt, outcome, cpc>>

(* One pass of the retry loop (lines 280-309): the upstream call answers    *)
(* `resp`; `out` is what a token refresh meets.                             *)
Attempt(resp, out) ==
    /\ cpc = "attempt"
    /\ UNCHANGED <<syncVars, call, loaded, nRequests, nTicks>>
    /\ resp = "AccessUnauthorized" \/ out = NoRefresh
    /\ nUpsets + Cost(resp # "ok") <= MaxUpsets
    /\ nUpsets' = nUpsets + Cost(resp # "ok")
    /\ LET called == Append(log, Event("call", client.access_token, resp))
           last == attempt >= max_retries - 1
           r == refresh_access_token(client, oauth_tokens, out, utcnow, issued)
       IN  CASE resp = "ok" ->
                  /\ log' = called
                  /\ outcome' = "value"
                  /\ cpc' = "ready"
                  /\ UNCHANGED <<oauth_tokens, client, utcnow, attempt, issued>>
             [] resp \in {"RateLimitExceeded", "Exception"} ->
                  /\ UNCHANGED <<oauth_tokens, client, issued>>
                  /\ IF last
                     THEN /\ log' = called
                          /\ outcome' = resp
                          /\ cpc' = "ready"
                          /\ UNCHANGED <<utcnow, attempt>>
                     ELSE LET wait_time == (2 ^ attempt) *
                                           (IF resp = "RateLimitExceeded" THEN 60 ELSE 5)
                          IN  /\ log' = Append(called, Event("sleep", wait_time, "none"))
                              /\ utcnow' = utcnow + wait_time
                              /\ attempt' = attempt + 1
                              /\ UNCHANGED <<outcome, cpc>>
             [] resp = "AccessUnauthorized" ->
                  /\ log' = Append(called, Event("refresh", IF r.ok THEN 1 ELSE 0, "none"))
                  /\ client' = r.client
                  /\ oauth_tokens' = r.tokens
                  /\ issued' = r.issued
                  /\ utcnow' = utcnow + r.took
                  /\ IF ~r.ok
                     THEN /\ outcome' = resp
                          /\ cpc' = "ready"
                          /\ UNCHANGED attempt
                     ELSE IF last
                     THEN /\ outcome' = "None"
                          /\ cpc' = "ready"
                          /\ UNCHANGED attempt
                     ELSE /\ attempt' = attempt + 1
                          /\ UNCHANGED <<outcome, cpc>>

(* A token row as the authorization flow stored it. *)
StoredToken(expires_at) ==
    [access_token |-> 1, refresh_token |-> 1, expires_at |-> expires_at, created_at |-> 1]

(* Clients that have been in use: 99 requests in the running 15-minute      *)
(* window of their first day; 998 requests in their first day, 98 of them   *)
(* in the running 15-minute window.                                         *)
BusyClients ==
    { [token |-> StoredToken(T0 + TokenLifetime), access_token |-> 1,
       request_count_15min |-> 99, request_count_daily |-> 99,
       window_15min_start |-> T0 - 100, window_daily_start |-> T0 - 100],
      [token |-> StoredToken(T0 + TokenLifetime), access_token |-> 1,
       request_count_15min |-> 98, request_count_daily |-> 998,
       window_15min_start |-> T0 - 100, window_daily_start |-> 0] }

(* Either no client yet and one stored token (valid for long, at the edge   *)
(* of the refresh buffer, inside it, or expired), or a client in use.       *)
InitClient ==
    /\ SyncInit /\ athlete = [ftp |-> 250, max_heart_rate |-> 0]
    /\ MetricsIdle
    /\ utcnow = T0
    /\ attempt = 0
    /\ log = <<>>
    /\ outcome = "none"
    /\ issued = 1
    /\ nRequests = 0
    /\ nTicks = 0
    /\ nUpsets = 0
    /\ \/ /\ cpc = "new"
          /\ \E e \in {T0 + TokenLifetime, T0 + REFRESH_BUFFER + 1, T0 + REFRESH_BUFFER,
                       T0 + 200, T0 - 50} : oauth_tokens = <<StoredToken(e)>>
          /\ client = [token |-> NoToken, access_token |-> 0, request_count_15min |-> 0,
                       request_count_daily |-> 0, window_15min_start |-> 0,
                       window_daily_start |-> 0]
          /\ loaded = [token |-> NoToken, needs_refresh |-> FALSE]
       \/ /\ cpc = "ready"
          /\ client \in BusyClients
          /\ oauth_tokens = <<client.token>>
          /\ loaded = [token |-> client.token, needs_refresh |-> FALSE]

NextClient ==
    \/ \E out \in RefreshOutcomes : Construct(out)
    \/ \E d \in TickSteps : Tick(d)
    \/ Request
    \/ \E resp \in {"ok", "RateLimitExceeded", "AccessUnauthorized", "Exception"},
          out \in RefreshOutcomes : Attempt(resp, out)

SpecClient == InitClient /\ [][NextClient]_vars


(* ------------------------- client properties -------------------------- *)
Calls(l) == { i \in 1..Len(l) : l[i].ev = "call" }
Unauthorized(l) == { i \in Calls(l) : l[i].resp = "AccessUnauthorized" }
Refreshes(l) == { i \in 1..Len(l) : l[i].ev = "refresh" }
Finished == cpc = "ready" /\ nRequests > 0
Errors == {"RateLimitExceeded", "AccessUnauthorized", "Exception"}

(* C12: within one request an unauthorized answer is followed by exactly    *)
(* one token refresh and at most one retry; a request with a second         *)
(* unauthorized answer ends with the authentication error, without another  *)
(* refresh or retry.                                                        *)
C12_SingleRefreshAndRetry ==
    /\ Cardinality(Refreshes(log)) <= 1
    /\ \A i \in Unauthorized(log) :
          (\A j \in Unauthorized(log) : i <= j) =>
              Cardinality({ k \in Calls(log) : k > i }) <= 1
    /\ (Finished /\ Unauthorized(log) # {}) => Cardinality(Refreshes(log)) = 1
    /\ (Finished /\ Cardinality(Unauthorized(log)) >= 2) => outcome = "AccessUnauthorized"

(* C13: a finished request either returns the value of an upstream call     *)
(* that succeeded, or raises the error of its last failed attempt; it never *)
(* returns without a value.                                                 *)
C13_NoSilentReturn ==
    Finished =>
        \/ /\ outcome = "value"
           /\ Calls(log) # {}
           /\ log[Len(log)].ev = "call" /\ log[Len(log)].resp = "ok"
        \/ /\ outcome \in Errors
           /\ \A i \in Calls(log) : log[i].resp # "ok"
           /\ Calls(log) # {} =>
                 LET lastCall == CHOOSE i \in Calls(log) : \A j \in Calls(log) : j <= i
                 IN  log[lastCall].resp = outcome

(* The daily counter, after its reset when the day is over, is below the    *)
(* daily limit.                                                             *)
DailyOpen ==
    \/ utcnow - client.window_daily_start > WINDOW_DAILY
    \/ client.request_count_daily < STRAVA_RATE_LIMIT_DAILY

RequestStep == cpc = "ready" /\ nRequests' = nRequests + 1

(* C14: while the daily limit is not reached, a request inside the running  *)
(* 15-minute window proceeds at once when fewer than 100 requests were      *)
(* counted in it and is held until the window is over when 100 were; a      *)
(* request made more than 15 minutes after the window began proceeds at     *)
(* once and starts the count again.                                         *)
C14_ShortWindow ==
    [][ (RequestStep /\ DailyOpen) =>
          LET elapsed == utcnow - client.window_15min_start
              count == client.request_count_15min
          IN  /\ cpc' = "attempt"
              /\ (elapsed <= WINDOW_15MIN /\ count < STRAVA_RATE_LIMIT_15MIN) =>
                    /\ utcnow' = utcnow
                    /\ client'.request_count_15min = count + 1
                    /\ client'.window_15min_start = client.window_15min_start
              /\ (elapsed <= WINDOW_15MIN /\ count >= STRAVA_RATE_LIMIT_15MIN) =>
                    /\ utcnow' > client.window_15min_start + WINDOW_15MIN
                    /\ client'.request_count_15min = 1
                    /\ client'.window_15min_start = utcnow'
              /\ elapsed > WINDOW_15MIN =>
                    /\ utcnow' = utcnow
                    /\ client'.request_count_15min = 1
                    /\ client'.window_15min_start = utcnow ]_vars

(* The 100th request of a window went through at once and the 101st has     *)
(* just been held until the window was over.                                *)
C14_Witness ==
    /\ nRequests = 2
    /\ cpc = "attempt"
    /\ log = <<Event("sleep", 801, "none")>>
    /\ utcnow = T0 + 801
    /\ client.request_count_15min = 1
    /\ client.request_count_daily = 101

(* C15: a request made when the daily counter has reached the daily limit   *)
(* raises the rate-limit error at once: no sleep, no upstream call, no      *)
(* retry.                                                                   *)
C15_DailyLimitImmediate ==
    [][ (RequestStep /\ ~DailyOpen) =>
          /\ outcome' = "RateLimitExceeded"
          /\ cpc' = "ready"
          /\ utcnow' = utcnow
          /\ log' = <<>> ]_vars

(* C16: once the token endpoint has issued refreshed credentials, the most  *)
(* recently created OAuthToken row holds them, and the client's cached      *)
(* token and the access token it sends are those of that row.               *)
C16_RefreshIsStored ==
    (cpc # "new" /\ issued > 1) =>
        /\ LatestToken(oauth_tokens).access_token = issued
        /\ client.token = LatestToken(oauth_tokens)
        /\ client.access_token = client.token.access_token

(* C17: a client built on a stored token that is within the refresh buffer  *)
(* of its expiry holds a refreshed token afterwards, and its first upstream *)
(* call carries the refreshed access token.                                 *)
C17_RefreshedBeforeFirstUse ==
    (cpc # "new" /\ loaded.needs_refresh) =>
        /\ client.token # loaded.token
        /\ client.token = LatestToken(oauth_tokens)
        /\ (nRequests = 1 /\ Calls(log) # {}) =>
              LET first == CHOOSE i \in Calls(log) : \A j \in Calls(log) : i <= j
              IN  /\ log[first].n # loaded.token.access_token
                  /\ log[first].n = LatestToken(oauth_tokens).access_token


(* ============== a sync whose stream step meets failures ================ *)
(* The feeds of PartialFeeds; the only things that go wrong are in          *)
(* _sync_activity_streams: the fetch of an activity's streams raises, or    *)
(* storing them raises.                                                     *)
NextStreams ==
    \/ \E k \in {"full", "incremental"} : StartSync(k, FALSE)
    \/ SyncAthleteProfile("ok")
    \/ SyncActivities("ok", FALSE, 0)
    \/ CalculateLoads("ok")
    \/ \E failing \in SUBSET (1..FeedSize), broken \in SUBSET (1..FeedSize) :
          SyncRecentStreams("ok", failing, broken)
    \/ CompleteSync(FALSE)
    \/ FinalCallback(FALSE)
    \/ HandleFailure(FALSE)

SpecStreams == InitPartial /\ [][NextStreams]_vars

StreamIds(table) == { table[i].activity_id : i \in 1..Len(table) }

(* C18: whatever fails for single activities inside the stream step, the    *)
(* step itself does not fail: the sync goes on to its successful            *)
(* completion, every selected activity ends up either with its streams      *)
(* stored or skipped, and streams_synced is the number of selected          *)
(* activities whose streams were stored.                                    *)
C18_StreamFailuresSkipped ==
    [][ pc = "streams" =>
          LET selected == { StreamCandidates[i].id : i \in 1..Len(StreamCandidates) }
          IN  /\ pc' = "complete"
              /\ StreamIds(streams') \ StreamIds(streams) \subseteq selected
              /\ streams_synced' =
                    Cardinality(StreamIds(streams') \ StreamIds(streams)) ]_vars


(* ===================== TrainingMetrics: pure functions ================== *)
(* A call of one of the static functions: `call` holds its arguments, then  *)
(* its result.  Python's None is the empty tuple, a returned number n is    *)
(* <<n>>; the dictionary of calculate_time_in_zones is the tuple of its     *)
(* values, keyed 1..len(zones), and {} is the empty tuple.                  *)
MaxSamples == 2
MaxZones == 2

None == <<>>
Some(n) == <<n>>

HrValues == {100, 120, 140}
ZoneChoices ==
    { [min_value |-> 100, max_value |-> 120],
      [min_value |-> 120, max_value |-> 140],
      [min_value |-> 100, max_value |-> 140],
      [min_value |-> 110, max_value |-> 130] }
Intervals == {1, 5}
Durations == {200, 270, 300, 330, 1200, 3600, 14400, 18000, 21600, 72000, 200000}
AveragePowers == {0, 250}
NormalizedPowers == {0, 260}

SeqsUpTo(S, n) == UNION { [1..k -> S] : k \in 0..n }

(* TrainingZone.contains: min_value <= value < max_value. *)
contains(zone, value) == zone.min_value <= value /\ value < zone.max_value

(* calculate_time_in_zones (lines 279-292): for every zone, in order, the   *)
(* number of samples with min_value <= sample < max_value, times the        *)
(* sampling interval; every zone is counted on its own.                     *)
calculate_time_in_zones(hr_data, zones, sampling_interval) ==
    IF hr_data = <<>> \/ zones = <<>> THEN <<>>
    ELSE [ i \in 1..Len(zones) |->
             Cardinality({ k \in 1..Len(hr_data) :
                             /\ hr_data[k] >= zones[i].min_value
                             /\ hr_data[k] < zones[i].max_value })
               * sampling_interval ]

(* estimate_ftp_from_activity (lines 389-411).  duration_minutes is         *)
(* duration_seconds / 60.0, and it is compared with 4 * 60, 6 * 60, ...:    *)
(* duration_seconds / 60 >= 4 * 60 is duration_seconds >= 4 * 60 * 60.      *)
(* int(round(power * 0.93)) is the rounding, ties to even, of               *)
(* power * 93 / 100 (the powers used here round alike in floating point).   *)
estimate_ftp_from_activity(duration_seconds, average_power, normalized_power) ==
    LET power == IF normalized_power > 0 THEN normalized_power ELSE average_power
    IN  IF power = 0 THEN None
        ELSE IF 4 * 60 * 60 <= duration_seconds /\ duration_seconds <= 6 * 60 * 60
             THEN Some(RoundHalfEven(power * 93, 100))
        ELSE IF 18 * 60 * 60 <= duration_seconds /\ duration_seconds <= 22 * 60 * 60
             THEN Some(RoundHalfEven(power * 95, 100))
        ELSE IF 50 * 60 * 60 <= duration_seconds /\ duration_seconds <= 70 * 60 * 60
             THEN Some(RoundHalfEven(power * 100, 100))
        ELSE None

MetricCalls ==
    { [fn |-> "calculate_time_in_zones", hr_data |-> h, zones |-> z,
       sampling_interval |-> s, done |-> FALSE, result |-> None] :
        h \in SeqsUpTo(HrValues, MaxSamples), z \in SeqsUpTo(ZoneChoices, MaxZones),
        s \in Intervals }
    \cup
    { [fn |-> "estimate_ftp_from_activity", duration_seconds |-> d,
       average_power |-> a, normalized_power |-> n, done |-> FALSE, result |-> None] :
        d \in Durations, a \in AveragePowers, n \in NormalizedPowers }

TimeInZones ==
    /\ call.fn = "calculate_time_in_zones"
    /\ ~call.done
    /\ call' = [call EXCEPT !.done = TRUE,
                  !.result = calculate_time_in_zones(call.hr_data, call.zones,
                                                     call.sampling_interval)]
    /\ UNCHANGED <<syncVars, clientVars>>

EstimateFtp ==
    /\ call.fn = "estimate_ftp_from_activity"
    /\ ~call.done
    /\ call' = [call EXCEPT !.done = TRUE,
                  !.result = estimate_ftp_from_activity(call.duration_seconds,
                                 call.average_power, call.normalized_power)]
    /\ UNCHANGED <<syncVars, clientVars>>

InitMetrics == SyncInit /\ ClientIdle /\ call \in MetricCalls

NextMetrics == TimeInZones \/ EstimateFtp

SpecMetrics == InitMetrics /\ [][NextMetrics]_vars

(* The first zone, in declared order, that contains the value; 0 if none. *)
FirstZone(zones, value) ==
    IF \E i \in 1..Len(zones) : contains(zones[i], value)
    THEN CHOOSE i \in 1..Len(zones) :
            /\ contains(zones[i], value)
            /\ \A j \in 1..(i - 1) : ~contains(zones[j], value)
    ELSE 0

RECURSIVE SumOf(_)
SumOf(times) == IF times = <<>> THEN 0 ELSE Head(times) + SumOf(Tail(times))

(* C19: every sample is counted for at most one zone, the first zone in     *)
(* declared order whose interval [min_value, max_value) contains it, so a   *)
(* sample equal to a zone's upper bound is not counted for that zone; and   *)
(* the zone times sum to at most (number of samples x sampling interval),   *)
(* also when zone bounds overlap.                                           *)
C19_FirstMatchingZone ==
    (call.fn = "calculate_time_in_zones" /\ call.done /\ call.result # <<>>) =>
        /\ \A i \in 1..Len(call.zones) :
              call.result[i] =
                 Cardinality({ k \in 1..Len(call.hr_data) :
                                 FirstZone(call.zones, call.hr_data[k]) = i })
                   * call.sampling_interval
        /\ SumOf(call.result) <= Len(call.hr_data) * call.sampling_interval

(* The duration is within 10% of the nominal one. *)
About(duration_seconds, nominal) ==
    /\ 10 * (nominal - duration_seconds) <= nominal
    /\ 10 * (duration_seconds - nominal) <= nominal

(* C20: with power the normalized power when it is positive and the average *)
(* power otherwise, the estimate is round(0.93 x power) for an effort of    *)
(* about 5 minutes (300 s within 10%), round(0.95 x power) for about 20     *)
(* minutes (1200 s), round(1.00 x power) for about 60 minutes (3600 s), and *)
(* nothing for every other duration.                                        *)
C20_FtpBands ==
    LET power == IF call.normalized_power > 0 THEN call.normalized_power
                 ELSE call.average_power
        d == call.duration_seconds
    IN  (call.fn = "estimate_ftp_from_activity" /\ call.done /\ power > 0) =>
            call.result =
               IF About(d, 300) THEN Some(RoundHalfEven(power * 93, 100))
               ELSE IF About(d, 1200) THEN Some(RoundHalfEven(power * 95, 100))
               ELSE IF About(d, 3600) THEN Some(RoundHalfEven(power * 100, 100))
               ELSE None


(* ================= syncs in which nothing goes wrong =================== *)
(* No callback raises, upstream and the database answer every time.         *)
(* Between two syncs an activity may appear upstream, be edited or be       *)
(* deleted.  A record without a moving time can still be listed.            *)
UpstreamDelete(id) ==
    /\ pc = "idle"
    /\ nChanges < MaxChanges
    /\ nSyncs < MaxSyncs
    /\ \E a \in remote : a.id = id
    /\ remote' = { a \in remote : a.id # id }
    /\ nChanges' = nChanges + 1
    /\ UNCHANGED otherVars
    /\ UNCHANGED <<athlete, dbVars, sessVars, pc, kind, result, clock, nSyncs, nFaults,
                   recordsBefore, hist>>

NextQuiet ==
    \/ \E k \in {"full", "incremental"} : StartSync(k, FALSE)
    \/ SyncAthleteProfile("ok")
    \/ SyncActivities("ok", FALSE, 0)
    \/ CalculateLoads("ok")
    \/ SyncRecentStreams("ok", {}, {})
    \/ CompleteSync(FALSE)
    \/ FinalCallback(FALSE)
    \/ HandleFailure(FALSE)
    \/ \E id \in Ids, day \in Days, shape \in RemoteShapes : UpstreamChange(id, day, shape)
    \/ \E id \in Ids : UpstreamDelete(id)

SpecQuiet == Init /\ [][NextQuiet]_vars

(* The stored TrainingLoad row of the latest date strictly before `bound`,  *)
(* a row of zeros when there is none (bound 0: no bound date, no row).      *)
SeedBefore(table, bound) ==
    LET before == { r \in Range(table) : r.date < bound }
    IN  IF before = {} THEN NewTrainingLoad(0)
        ELSE CHOOSE r \in before : \A q \in before : q.date <= r.date

(* C21: the recomputation of an incremental_sync starts from the ctl and    *)
(* atl of the stored TrainingLoad row of the latest date strictly before    *)
(* its bound date, from zero when there is no such row, never from a row    *)
(* dated on or after the bound date: the first recomputed day is one        *)
(* smoothing step from that seed.                                           *)
C21_SeededFromPrecedingRow ==
    [][ (pc = "loads" /\ kind = "incremental" /\ pc' = "streams"
            /\ LoadActivities(activities, after_date) # <<>>) =>
          LET rows == LoadActivities(activities, after_date)
              first == CHOOSE d \in { rows[i].start_date : i \in 1..Len(rows) } :
                          \A i \in 1..Len(rows) : d <= rows[i].start_date
              seed == SeedBefore(training_loads, after_date)
          IN  /\ HasLoad(training_loads', first)
              /\ LoadOn(training_loads', first).ctl =
                    calculate_ctl(<<DayTss(rows, first)>>, seed.ctl)
              /\ LoadOn(training_loads', first).atl =
                    calculate_atl(<<DayTss(rows, first)>>, seed.atl) ]_vars

(* The date of the newest activity of a feed, 0 for an empty feed. *)
NewestDate(feed) ==
    IF feed = {} THEN 0
    ELSE CHOOSE d \in { a.start_date : a \in feed } : \A a \in feed : a.start_date <= d

(* The upstream data the most recent successful call saw, {} if none. *)
LastSuccessFeed ==
    LET ok == { i \in 1..Len(hist) : Succeeded(hist[i]) }
    IN  IF ok = {} THEN {} ELSE hist[CHOOSE i \in ok : \A j \in ok : j <= i].remote

(* C22: the record of a successful sync holds the date of the newest        *)
(* activity the sync saw as last_activity_date, and the next                *)
(* incremental_sync fetches exactly the upstream activities strictly after  *)
(* the last_activity_date of the most recent success record.                *)
C22_LowerBoundFromLastSuccess ==
    /\ \A i \in 1..Len(hist) :
          (Succeeded(hist[i]) /\ hist[i].remote # {}) =>
              hist[i].record.last_activity_date = NewestDate(hist[i].remote)
    /\ (kind = "incremental" /\ pc \in {"loads", "streams", "complete", "final"}) =>
          /\ after_date = NewestDate(LastSuccessFeed)
          /\ activities_synced =
                Cardinality({ a \in remote : a.start_date > NewestDate(LastSuccessFeed) })

(* C23: incremental_sync goes on to recompute the training loads exactly    *)
(* when it fetched at least one activity; when it fetched none, no          *)
(* Activity, TrainingLoad or ActivityStream row changes, the stream step is *)
(* not entered, and the call returns success with activities_synced = 0     *)
(* and streams_synced = 0.                                                  *)
C23_RecomputeOnlyWhenFetched ==
    [][ kind = "incremental" =>
          LET lst == get_activities(remote, LastSuccessDate, FALSE)
          IN  /\ pc = "activities" =>
                   /\ pc' = "loads" => Len(lst) > 0
                   /\ (Len(lst) > 0 /\ FirstRaising(lst) = 0) => pc' = "loads"
                   /\ Len(lst) = 0 =>
                         /\ pc' = "complete"
                         /\ activities_synced' = 0 /\ streams_synced' = 0
                         /\ UNCHANGED <<activities, training_loads, streams>>
              /\ (pc \in {"complete", "final"} /\ activities_synced = 0) =>
                   /\ UNCHANGED <<activities, training_loads, streams>>
                   /\ pc' \in {"final", "idle"}
                   /\ pc = "final" =>
                         result' = [status |-> "success", activities_synced |-> 0,
                                    streams_synced |-> 0, error |-> "none"] ]_vars

(* After a full_sync stored an activity and its training load, the activity *)
(* was deleted upstream, and an incremental_sync that fetched nothing       *)
(* returned success and left the stored rows as they were.                  *)
C23_Witness ==
    /\ Len(hist) = 2
    /\ hist[1].kind = "full" /\ Succeeded(hist[1])
    /\ hist[2].kind = "incremental" /\ Succeeded(hist[2])
    /\ hist[2].remote = {}
    /\ hist[2].result.activities_synced = 0
    /\ hist[2].activities # <<>>
    /\ hist[2].activities = hist[1].activities
    /\ hist[2].training_loads = hist[1].training_loads
    /\ hist[2].training_loads # <<>>


(* ------------------- the retry loop: counting and backoff ------------- *)
(* C24: every upstream request, retries included, is preceded by one        *)
(* increment of the 15-minute counter and of the daily counter (a counter   *)
(* whose window has just started again is at 1): the check before the first *)
(* attempt counts it, and so does every step that goes on to a retry.       *)
C24_EveryAttemptCounted ==
    [][ ((RequestStep \/ cpc = "attempt") /\ cpc' = "attempt") =>
          /\ client'.request_count_15min \in {client.request_count_15min + 1, 1}
          /\ client'.request_count_daily \in {client.request_count_daily + 1, 1} ]_vars

(* The seconds slept between the attempts of the request in log l. *)
Backoffs(l) ==
    LET first == CHOOSE i \in Calls(l) : \A j \in Calls(l) : i <= j
        later == SelectSeq(SubSeq(l, first, Len(l)), LAMBDA e : e.ev = "sleep")
    IN  [i \in 1..Len(later) |-> later[i].n]

(* C25: a request whose every attempt was answered with a rate-limit        *)
(* response made four attempts, waited 60 s, 120 s and 240 s between them   *)
(* and then raised the error; with another transient error at every attempt *)
(* the waits were 5 s, 10 s and 20 s.                                       *)
C25_BackoffSchedule ==
    (Finished /\ Calls(log) # {}) =>
        /\ (outcome = "RateLimitExceeded"
              /\ \A i \in Calls(log) : log[i].resp = "RateLimitExceeded") =>
                 /\ Cardinality(Calls(log)) = 4
                 /\ Backoffs(log) = <<60, 120, 240>>
        /\ (outcome = "Exception" /\ \A i \in Calls(log) : log[i].resp = "Exception") =>
                 /\ Cardinality(Calls(log)) = 4
                 /\ Backoffs(log) = <<5, 10, 20>>

(* Every sleep and every upstream call returns: the loop goes on. *)
SpecClientLive ==
    SpecClient /\ WF_vars(\E resp \in {"ok", "RateLimitExceeded", "AccessUnauthorized",
                                       "Exception"},
                             out \in RefreshOutcomes : Attempt(resp, out))

C26_MissingFieldsTolerated ==
    [][ pc = "activities" =>
          LET lst == get_activities(remote, LastSuccessDate, FALSE)
          IN  /\ exc' # "TypeError"
              /\ pc' # "handler" =>
                    \A j \in 1..Len(lst) :
                        /\ ActivityInTable(activities', lst[j].id)
                        /\ (CHOOSE r \in Range(activities') : r.id = lst[j].id).moving_time
                              = lst[j].moving_time ]_vars

(* The listing the call of hist entry h worked on. *)
ListingOf(h) == get_activities(h.remote, 0, FALSE)

(* C27: when exactly one record of the fetched batch cannot be mapped, that *)
(* record is skipped: every other activity of the batch is stored and the   *)
(* sync does not end failed.                                                *)
C27_MalformedRecordSkipped ==
    \A i \in 1..Len(hist) :
        LET lst == ListingOf(hist[i])
            bad == { j \in 1..Len(lst) : TssRaises(lst[j]) }
        IN  (Cardinality(bad) = 1 /\ hist[i].exc # "callback") =>
                /\ hist[i].result.status = "success"
                /\ \A j \in (1..Len(lst)) \ bad :
                      ActivityInTable(hist[i].activities, lst[j].id)

(* C30: after a sync that failed, no stored Activity row is a half-mapped   *)
(* one: a row on which the TSS computation of line 414 raises is a row      *)
(* whose mapping stopped there, without training_stress_score and           *)
(* intensity_factor.                                                        *)
C30_NoHalfMappedRow ==
    \A i \in 1..Len(hist) :
        hist[i].result.status = "failed" =>
            \A row \in Range(hist[i].activities) : ~TssRaises(row)


(* ============== two sync managers for the same athlete ================= *)
(* SyncManager keeps no lock and looks at no other call's record before it  *)
(* starts (lines 55-58, 137-140).  `second` is an incremental_sync of a     *)
(* second SyncManager of the athlete (another page request or process),     *)
(* with its own session on the same database, no progress callback, and     *)
(* no upstream or database fault.  _calculate_training_loads is taken in    *)
(* two steps, its queries and loop (lines 488-543) and its commit (line     *)
(* 545), so that steps of the first manager can fall between them.          *)
firstVars == <<remote, athlete, pc, kind, pendActs, pendLoads, pendStreams, sync_record,
               recIdx, inactive, exc, activities_synced, streams_synced, after_date,
               result, nSyncs, nChanges, nFaults, recordsBefore, hist>>

(* A start that is refused while another record is in_progress. *)
SecondStart_Locked ==
    /\ second.pc = "idle"
    /\ ~\E i \in 1..Len(sync_metadata) : sync_metadata[i].sync_status = "in_progress"
    /\ sync_metadata' =
          Append(sync_metadata, NewSyncRecord("incremental", "in_progress", clock))
    /\ clock' = clock + 1
    /\ second' = [second EXCEPT
                     !.pc = "activities",
                     !.recIdx = Len(sync_metadata) + 1,
                     !.sync_record = NewSyncRecord("incremental", "in_progress", clock)]
    /\ UNCHANGED <<activities, training_loads, streams, firstVars, clientVars, call>>

(* incremental_sync lines 137-140 with _create_sync_record (548-558). *)
SecondStart ==
    /\ second.pc = "idle"
    /\ sync_metadata' =
          Append(sync_metadata, NewSyncRecord("incremental", "in_progress", clock))
    /\ clock' = clock + 1
    /\ second' = [second EXCEPT
                     !.pc = "activities",
                     !.recIdx = Len(sync_metadata) + 1,
                     !.sync_record = NewSyncRecord("incremental", "in_progress", clock)]
    /\ UNCHANGED <<activities, training_loads, streams, firstVars, clientVars, call>>

(* Lines 143-154 with _sync_activities_after (259-279). *)
SecondSyncActivities ==
    /\ second.pc = "activities"
    /\ LET after == LastSuccessDate
           lst == get_activities(remote, after, FALSE)
           loop == SyncLoop(activities, lst, 1, <<>>, 0, 0, athlete)
           fa == FlushActivities(activities, loop.pend)
       IN  IF loop.error # "none"
           THEN /\ second' = [second EXCEPT !.pc = "handler", !.exc = loop.error,
                                            !.pendActs = loop.pend, !.after_date = after]
                /\ UNCHANGED activities
           ELSE IF ~fa.ok
           THEN /\ second' = [second EXCEPT !.pc = "handler", !.exc = "IntegrityError",
                                            !.inactive = TRUE, !.after_date = after]
                /\ UNCHANGED activities
           ELSE /\ activities' = fa.table
                /\ second' = [second EXCEPT
                                 !.pc = IF loop.synced > 0 THEN "loads" ELSE "complete",
                                 !.after_date = after,
                                 !.activities_synced = loop.synced,
                                 !.sync_record.activities_synced = loop.synced]
    /\ UNCHANGED <<training_loads, streams, sync_metadata, clock, firstVars, clientVars,
                   call>>

(* _calculate_training_loads lines 488-543: the queries and the loop. *)
SecondReadLoads ==
    /\ second.pc = "loads"
    /\ IF LoadActivities(activities, second.after_date) = <<>>
       THEN second' = [second EXCEPT !.pc = "streams"]
       ELSE second' = [second EXCEPT
                          !.pc = "write",
                          !.seen = training_loads,
                          !.pendLoads = CalculateTrainingLoads(activities, training_loads,
                                                               second.after_date)]
    /\ UNCHANGED <<dbVars, clock, firstVars, clientVars, call>>

(* _calculate_training_loads line 545: the commit. *)
SecondWriteLoads ==
    /\ second.pc = "write"
    /\ LET fl == FlushLoads(training_loads, second.pendLoads)
       IN  IF fl.ok
           THEN /\ training_loads' = fl.table
                /\ second' = [second EXCEPT !.pc = "streams", !.pendLoads = <<>>]
           ELSE /\ UNCHANGED training_loads
                /\ second' = [second EXCEPT !.pc = "handler", !.exc = "IntegrityError",
                                            !.inactive = TRUE, !.pendLoads = <<>>]
    /\ UNCHANGED <<activities, streams, sync_metadata, clock, firstVars, clientVars, call>>

(* Lines 163-168 with _sync_recent_streams (429-453). *)
SecondSyncStreams ==
    /\ second.pc = "streams"
    /\ LET synced == StreamsSynced(StreamCandidates, {}, {})
       IN  /\ streams' = streams \o StreamLoop(StreamCandidates, {}, {})
           /\ second' = [second EXCEPT !.pc = "complete",
                                       !.streams_synced = synced,
                                       !.sync_record.streams_synced = synced]
    /\ UNCHANGED <<activities, training_loads, sync_metadata, clock, firstVars, clientVars,
                   call>>

(* Lines 173-188. *)
SecondComplete ==
    /\ second.pc = "complete"
    /\ clock' = clock + 1
    /\ sync_metadata' = [sync_metadata EXCEPT
                            ![second.recIdx] = MarkSuccess(second.sync_record, clock)]
    /\ second' = [second EXCEPT
                     !.pc = "done",
                     !.sync_record = MarkSuccess(second.sync_record, clock),
                     !.result = [status |-> "success",
                                 activities_synced |-> second.activities_synced,
                                 streams_synced |-> second.streams_synced,
                                 error |-> "none"]]
    /\ UNCHANGED <<activities, training_loads, streams, firstVars, clientVars, call>>

(* The except handler, lines 190-200. *)
SecondHandleFailure ==
    /\ second.pc = "handler"
    /\ clock' = clock + 1
    /\ LET rec == MarkFailed(second.sync_record, second.exc, clock)
           fa == FlushActivities(activities, second.pendActs)
       IN  IF second.inactive \/ ~fa.ok
           THEN /\ UNCHANGED <<activities, sync_metadata>>
                /\ second' = [second EXCEPT
                                 !.pc = "done", !.sync_record = rec, !.pendActs = <<>>,
                                 !.inactive = TRUE,
                                 !.result = Raised(IF second.inactive
                                                   THEN "PendingRollbackError"
                                                   ELSE "IntegrityError")]
           ELSE /\ activities' = fa.table
                /\ sync_metadata' = [sync_metadata EXCEPT ![second.recIdx] = rec]
                /\ second' = [second EXCEPT
                                 !.pc = "done", !.sync_record = rec, !.pendActs = <<>>,
                                 !.result = [NoResult EXCEPT !.status = "failed",
                                                             !.error = second.exc]]
    /\ UNCHANGED <<training_loads, streams, firstVars, clientVars, call>>

(* Upstream holds between one and MaxId activities, one a day. *)
ConcurrentFeeds ==
    { { RemoteActivity(i, i, f[i]) : i \in 1..n } :
         f \in [1..MaxId -> RemoteShapes], n \in 1..MaxId }

InitConcurrent == remote \in ConcurrentFeeds /\ SessionInit /\ ClientIdle /\ MetricsIdle

NextConcurrent ==
    \/ \E k \in {"full", "incremental"} : StartSync(k, FALSE)
    \/ SyncAthleteProfile("ok")
    \/ SyncActivities("ok", FALSE, 0)
    \/ CalculateLoads("ok")
    \/ SyncRecentStreams("ok", {}, {})
    \/ CompleteSync(FALSE)
    \/ FinalCallback(FALSE)
    \/ HandleFailure(FALSE)
    \/ SecondStart
    \/ SecondSyncActivities
    \/ SecondReadLoads
    \/ SecondWriteLoads
    \/ SecondSyncStreams
    \/ SecondComplete
    \/ SecondHandleFailure

SpecConcurrent == InitConcurrent /\ [][NextConcurrent]_vars

FirstRunning == pc \in {"profile", "activities", "loads", "streams", "complete", "handler"}
SecondRunning ==
    second.pc \in {"activities", "loads", "write", "streams", "complete", "handler"}

(* C28: no mutual exclusion between syncs of one athlete.  Whatever the     *)
(* first manager's call is doing, a second manager that has not started     *)
(* can start; and while both calls run, each has its own record in          *)
(* sync_metadata and both records are in_progress.                          *)
C28_NoMutualExclusion ==
    /\ second.pc = "idle" => ENABLED SecondStart
    /\ (FirstRunning /\ SecondRunning) =>
          /\ recIdx # second.recIdx
          /\ sync_metadata[recIdx].sync_status = "in_progress"
          /\ sync_metadata[second.recIdx].sync_status = "in_progress"

(* Both calls are running, and between the second manager's reading of the  *)
(* TrainingLoad rows and its commit the first manager has committed rows of *)
(* its own.                                                                 *)
C28_Witness ==
    /\ FirstRunning /\ SecondRunning
    /\ second.pc = "write"
    /\ second.seen # training_loads
    /\ second.pendLoads # <<>>
    /\ sync_metadata[recIdx].sync_status = "in_progress"
    /\ sync_metadata[second.recIdx].sync_status = "in_progress"

=============================================================================
